---- MODULE Spec2Model ----
(***************************************************************************)
(* Role staffing and response reconciliation of the schedule system.      *)
(*                                                                         *)
(* The browser side (Dashboard, ScheduleCard, AdminPanel) is translated    *)
(* from the React source.  The HTTP backend the browser talks to is not    *)
(* part of the sources at hand; its operations (create, update, delete,    *)
(* recordResponse) are modelled from the specification (sections 3-7).     *)
(***************************************************************************)
EXTENDS Integers, Sequences, FiniteSets, TLC

(***************************************************************************)
(* Bounds of the model.                                                    *)
(***************************************************************************)
\* Number of schedule records the server ever creates (ids are never reused).
MaxSchedules == 1
\* Number of schedule-response requests that may be in flight at once.
MaxInFlight == 2
\* Number of (role, user) pairs one form may hold.
MaxAssigned == 2
\* Length of the behaviours explored (steps taken by users, network and
\* server): with a volunteer's session, and of the administrator alone.
MaxSteps == 8
MaxAdminSteps == 8
\* ... and of the administrator editing a record the server already holds.
MaxStoredSteps == 7
\* ... and of the administrator saving the form, where every request sent
\* is left the step of its completion.
MaxSaveSteps == 7
\* ... and of signing in and out at one browser.
MaxAuthSteps == 7
\* Number of GET /me requests that may be in flight at once.
MaxMeInFlight == 2

\* Volunteers the administrator can select (users with role 'user').
Users == {"u1", "u2"}
\* The administrator's identity.
Admin == "admin"
\* The sessions whose Dashboard is modelled: a volunteer and the administrator.
Viewers == {"u1", Admin}
ScheduleIds == 1..MaxSchedules
\* Values of the date input: empty, or a calendar date.
Dates == {"d1"}
DayTypes == {"wednesday", "friday", "saturday"}
RoleTypes == {"pregacao", "limpeza", "louvor", "introdutoria", "portaria"}
\* Texts a user may type in the decline prompt; "null" is a cancelled prompt.
PromptResults == {"null", "", "motivo"}

\* A list slot or a server slot that holds no schedule.
Absent == [absent |-> TRUE]
\* JavaScript null where the other values are schedule ids (editingSchedule).
Null == 0

(***************************************************************************)
(* Small helpers on sequences and functions.                               *)
(***************************************************************************)
Range(seq) == {seq[i] : i \in 1..Len(seq)}

\* Array.prototype.find on an assignment list: the first assignment of the
\* role, or Absent (undefined).
FindAssignment(assignments, functionType) ==
    IF \E i \in 1..Len(assignments) : assignments[i].function_type = functionType
    THEN assignments[CHOOSE i \in 1..Len(assignments) :
            /\ assignments[i].function_type = functionType
            /\ \A j \in 1..(i-1) : assignments[j].function_type # functionType]
    ELSE Absent

\* The empty responses object {}.
NoResponses == [u \in {} |-> Absent]

(***************************************************************************)
(* Dashboard: the role table of the presentation layer.                    *)
(***************************************************************************)
getRequiredCount_OneForAll(functionType, dayType) == 1

getRequiredCount(functionType, dayType) ==
    IF functionType \in {"pregacao", "introdutoria", "portaria"} THEN 1
    ELSE IF functionType \in {"limpeza", "louvor"} THEN 3
    ELSE 1

getAllFunctions_PortariaFirst(dayType) ==
    IF dayType = "wednesday" \/ dayType = "saturday"
    THEN <<"pregacao", "limpeza", "louvor", "introdutoria">>
    ELSE IF dayType = "friday"
    THEN <<"portaria", "pregacao">>
    ELSE <<>>

getAllFunctions(dayType) ==
    IF dayType = "wednesday" \/ dayType = "saturday"
    THEN <<"pregacao", "limpeza", "louvor", "introdutoria">>
    ELSE IF dayType = "friday"
    THEN <<"pregacao", "portaria">>
    ELSE <<>>

(***************************************************************************)
(* AdminPanel: the assignments of a new form.                              *)
(***************************************************************************)
EmptyAssignment(functionType) ==
    [function_type |-> functionType, user_ids |-> {}, responses |-> NoResponses]

initializeScheduleAssignments_NoWelcome(dayType) ==
    IF dayType = "wednesday" \/ dayType = "saturday"
    THEN <<EmptyAssignment("pregacao"), EmptyAssignment("limpeza"),
           EmptyAssignment("louvor")>>
    ELSE IF dayType = "friday"
    THEN <<EmptyAssignment("pregacao"), EmptyAssignment("portaria")>>
    ELSE <<>>

initializeScheduleAssignments_PortariaFirst(dayType) ==
    IF dayType = "wednesday" \/ dayType = "saturday"
    THEN <<EmptyAssignment("pregacao"), EmptyAssignment("limpeza"),
           EmptyAssignment("louvor"), EmptyAssignment("introdutoria")>>
    ELSE IF dayType = "friday"
    THEN <<EmptyAssignment("portaria"), EmptyAssignment("pregacao")>>
    ELSE <<>>

initializeScheduleAssignments(dayType) ==
    IF dayType = "wednesday" \/ dayType = "saturday"
    THEN <<EmptyAssignment("pregacao"), EmptyAssignment("limpeza"),
           EmptyAssignment("louvor"), EmptyAssignment("introdutoria")>>
    ELSE IF dayType = "friday"
    THEN <<EmptyAssignment("pregacao"), EmptyAssignment("portaria")>>
    ELSE <<>>

AdminPanel_getRequiredCount_Three(functionType, dayType) == 3

\* AdminPanel's own copy of getRequiredCount.
AdminPanel_getRequiredCount(functionType, dayType) ==
    IF functionType \in {"pregacao", "introdutoria", "portaria"} THEN 1
    ELSE IF functionType \in {"limpeza", "louvor"} THEN 3
    ELSE 1

\* The form shows the over-staffing warning under the multi-select of a role.
WarningShown(form, assignmentIndex) ==
    Cardinality(form.assignments[assignmentIndex].user_ids) >
        AdminPanel_getRequiredCount(form.assignments[assignmentIndex].function_type,
                                    form.day_type)

\* useState of scheduleForm, and the value the form is reset to after a save.
InitialScheduleForm == [date |-> "", day_type |-> "wednesday", assignments |-> <<>>]

(***************************************************************************)
(* The backend, modelled from the specification (sections 3, 4.1-4.3, 7).  *)
(***************************************************************************)
\* RoleRequirementTable: the ordered (roleType, requiredCount) list of a day type.
requirementsFor(dayType) ==
    IF dayType \in {"wednesday", "saturday"}
    THEN << [roleType |-> "pregacao", requiredCount |-> 1],
            [roleType |-> "limpeza", requiredCount |-> 3],
            [roleType |-> "louvor", requiredCount |-> 3],
            [roleType |-> "introdutoria", requiredCount |-> 1] >>
    ELSE IF dayType = "friday"
    THEN << [roleType |-> "pregacao", requiredCount |-> 1],
            [roleType |-> "portaria", requiredCount |-> 1] >>
    ELSE "ValidationError"

\* The initial response of a user id that enters an assignment.
PendingResponse == [status |-> "pending", reason |-> ""]

\* The status of a user in an assignment; a user without an entry is Pending.
StatusOf(assignment, userId) ==
    IF userId \in DOMAIN assignment.responses
    THEN assignment.responses[userId].status
    ELSE "pending"

\* The user ids the caller supplied for a role (none when the role is missing).
SuppliedUserIds(supplied, roleType) ==
    LET a == FindAssignment(supplied, roleType)
    IN IF a = Absent THEN {} ELSE a.user_ids

\* The responses the server holds for the user ids of a role after a write:
\* a user that stays in the role keeps the response the server holds, a user
\* that enters it is Pending (an entry, or no entry, as repr says), and the
\* responses the caller sent are not used.
KeptResponses_FromCaller(userIds, old, sent, repr) ==
    LET keys == IF sent = Absent THEN {} ELSE userIds \cap DOMAIN sent.responses
    IN [u \in keys |-> sent.responses[u]]

KeptResponses(userIds, old, sent, repr) ==
    LET kept == IF old = Absent THEN {}
                ELSE {u \in userIds : u \in old.user_ids /\ u \in DOMAIN old.responses}
        keys == IF repr = "entry" THEN userIds ELSE kept
    IN [u \in keys |-> IF u \in kept THEN old.responses[u] ELSE PendingResponse]

\* create/update: one assignment per required role, in the table's order,
\* with the supplied user ids; roles outside the table are dropped.
BuildAssignments(dayType, supplied, existing, repr) ==
    LET req == requirementsFor(dayType)
    IN [i \in 1..Len(req) |->
          LET r == req[i].roleType
              ids == SuppliedUserIds(supplied, r)
              old == IF existing = Absent THEN Absent
                     ELSE FindAssignment(existing.assignments, r)
          IN [function_type |-> r, user_ids |-> ids,
              responses |-> KeptResponses(ids, old, FindAssignment(supplied, r), repr)]]

\* The result kind of create/update for a request body.
ValidateSchedule(body) ==
    IF body.date = "" \/ body.day_type \notin DayTypes
    THEN "ValidationError" ELSE "ok"

createSchedule(id, body, repr) ==
    [id |-> id, date |-> body.date, day_type |-> body.day_type,
     assignments |-> BuildAssignments(body.day_type, body.assignments, Absent, repr)]

updateSchedule(existing, body, repr) ==
    [id |-> existing.id, date |-> body.date, day_type |-> body.day_type,
     assignments |-> BuildAssignments(body.day_type, body.assignments, existing, repr)]

recordResponseResult_NoStateCheck(record, roleType, caller) ==
    IF record = Absent THEN "NotFoundError"
    ELSE LET a == FindAssignment(record.assignments, roleType)
         IN IF a = Absent THEN "NotFoundError"
            ELSE IF caller \notin a.user_ids THEN "AuthorizationError"
            ELSE "ok"

\* recordResponse: the result kind for a caller's request on a stored record.
recordResponseResult(record, roleType, caller) ==
    IF record = Absent THEN "NotFoundError"
    ELSE LET a == FindAssignment(record.assignments, roleType)
         IN IF a = Absent THEN "NotFoundError"
            ELSE IF caller \notin a.user_ids THEN "AuthorizationError"
            ELSE IF StatusOf(a, caller) # "pending" THEN "InvalidStateError"
            ELSE "ok"

recordResponseApply_NoWrite(record, roleType, caller, status, reason) == record

\* recordResponse on success: the caller's entry of the role is written; the
\* reason is stored only with Declined.
recordResponseApply(record, roleType, caller, status, reason) ==
    [record EXCEPT !.assignments =
        [i \in 1..Len(record.assignments) |->
            LET a == record.assignments[i]
            IN IF a.function_type = roleType
               THEN [a EXCEPT !.responses =
                       [u \in DOMAIN a.responses \cup {caller} |->
                          IF u = caller
                          THEN [status |-> status,
                                reason |-> IF status = "declined" THEN reason ELSE ""]
                          ELSE a.responses[u]]]
               ELSE a]]

\* NotificationEmitter: the domain events and their payloads.
scheduleCreated(record) ==
    [kind |-> "scheduleCreated", scheduleId |-> record.id, date |-> record.date,
     dayType |-> record.day_type]

\* The roles whose assignment differs between two versions of a record.
changedRoles(before, after) ==
    {f \in RoleTypes :
        FindAssignment(before.assignments, f) # FindAssignment(after.assignments, f)}

scheduleUpdated(before, after) ==
    [kind |-> "scheduleUpdated", scheduleId |-> after.id,
     changedRoles |-> changedRoles(before, after)]

scheduleDeleted(scheduleId) ==
    [kind |-> "scheduleDeleted", scheduleId |-> scheduleId]

responseRecorded(req) ==
    [kind |-> "responseRecorded", scheduleId |-> req.schedule_id,
     roleType |-> req.function_type, userId |-> req.client, status |-> req.status,
     reason |-> IF req.status = "declined" THEN req.reason ELSE ""]

Emit_Twice(emitted, event) == Append(Append(emitted, event), event)

\* A mutation that succeeded forwards its event to the emitter, once.
Emit(emitted, event) == Append(emitted, event)

(***************************************************************************)
(* State.                                                                  *)
(***************************************************************************)
VARIABLES
    db,                \* server: schedule id -> stored record, or Absent
    nextId,            \* server: the id the next created record gets
    pendingRepr,       \* server: how a Pending response is stored ("entry" | "none")
    dashSchedules,     \* Dashboard `schedules` of each viewer: id -> record, or Absent
    dashFetching,      \* Dashboard fetchSchedules in flight, per viewer
    respInFlight,      \* schedule-response requests in flight
    lastAlert,         \* the last alert() shown in each session
    adminSchedules,    \* AdminPanel `schedules`: id -> record, or Absent
    adminFetching,     \* AdminPanel fetchSchedules in flight
    showScheduleForm,  \* AdminPanel state
    editingSchedule,   \* AdminPanel state: the id of the edited record, or Null
    scheduleForm,      \* AdminPanel state: {date, day_type, assignments}
    formAlias,         \* id of the list record whose assignment objects the form shares
    loading,           \* AdminPanel state
    saveInFlight,      \* the POST/PUT of handleCreateSchedule in flight, or Absent
    deleteInFlight,    \* the DELETE of handleDeleteSchedule in flight, or Null
    events,            \* server: the domain events emitted so far, in order
    user,              \* AuthProvider state: the user record, or Absent (null)
    token,             \* AuthProvider state: the token, or NoToken (null)
    storedToken,       \* localStorage 'token', or NoToken
    authHeader,        \* axios.defaults.headers.common['Authorization'], or NoToken
    meInFlight,        \* the GET /me requests of fetchUserInfo in flight
    loginInFlight,     \* the POST /login of login in flight, or Absent
    loginError,        \* LoginScreen state `error`
    loginLoading,      \* LoginScreen state `loading`
    activeTab,         \* Dashboard state
    dashUsers,         \* Dashboard `users` of each viewer: the user records held
    usersFetching,     \* Dashboard fetchUsers in flight, per viewer
    stepsLeft          \* number of steps the behaviour may still take

vars == << db, nextId, pendingRepr, dashSchedules, dashFetching, respInFlight,
           lastAlert, adminSchedules, adminFetching, showScheduleForm,
           editingSchedule, scheduleForm, formAlias, loading, saveInFlight,
           deleteInFlight, events, user, token, storedToken, authHeader,
           meInFlight, loginInFlight, loginError, loginLoading, activeTab,
           dashUsers, usersFetching, stepsLeft >>

serverVars == << db, nextId, pendingRepr, events >>
authVars == << user, token, storedToken, authHeader, meInFlight, loginInFlight,
               loginError, loginLoading, activeTab >>
userListVars == << dashUsers, usersFetching >>
dashVars == << dashSchedules, dashFetching, respInFlight >>
formVars == << showScheduleForm, editingSchedule, scheduleForm, formAlias >>
panelVars == << adminSchedules, adminFetching, showScheduleForm, editingSchedule,
                scheduleForm, formAlias, loading, saveInFlight, deleteInFlight >>

NoSchedules == [id \in ScheduleIds |-> Absent]
NoAlert == [text |-> "", detail |-> ""]

\* The state after the AdminPanel and the Dashboard of the sessions in
\* `viewers` have mounted: empty lists, the mount effects' fetches in flight,
\* the form closed.  The server holds the records of `stored`, from id 1 on.
ScreensInit(budget, viewers, repr, stored) ==
    /\ db = [id \in ScheduleIds |-> IF id <= Len(stored) THEN stored[id] ELSE Absent]
    /\ nextId = Len(stored) + 1
    /\ pendingRepr = repr
    /\ dashSchedules = [c \in Viewers |-> NoSchedules]
    /\ dashFetching = [c \in Viewers |-> c \in viewers]
    /\ respInFlight = <<>>
    /\ lastAlert = [c \in Viewers |-> NoAlert]
    /\ adminSchedules = NoSchedules
    /\ adminFetching = TRUE
    /\ showScheduleForm = FALSE
    /\ editingSchedule = Null
    /\ scheduleForm = InitialScheduleForm
    /\ formAlias = Null
    /\ loading = FALSE
    /\ saveInFlight = Absent
    /\ deleteInFlight = Null
    /\ events = <<>>
    /\ dashUsers = [c \in Viewers |-> {}]
    /\ usersFetching = [c \in Viewers |-> c = Admin /\ c \in viewers]
    /\ stepsLeft = budget

\* JavaScript null where the other values are tokens.
NoToken == "null"
\* The accounts that sign in at the modelled browser, and the token the
\* server issues to each.
Accounts == {"u1", Admin}
TokenOf(account) == IF account = Admin THEN "t_admin" ELSE "t_u1"
AccountOf(t) == IF t = "t_admin" THEN Admin ELSE "u1"
\* The roles the user directory may hold for an account when a request is
\* served: the administrator's role can be taken away.
RolesOf_Account(account) == IF account = Admin THEN {"admin", "user"} ELSE {"user"}
UserData(account, role) == [id |-> account, role |-> role]

\* AuthProvider of a browser in which `account` is signed in and the admin
\* tab is open: nothing of the sign-in is in flight any more.
SignedIn(account, role) ==
    /\ user = UserData(account, role)
    /\ token = TokenOf(account)
    /\ storedToken = TokenOf(account)
    /\ authHeader = TokenOf(account)
    /\ meInFlight = <<>>
    /\ loginInFlight = Absent
    /\ loginError = ""
    /\ loginLoading = FALSE
    /\ activeTab = "admin"

InitWith(budget, viewers, repr, stored) ==
    /\ ScreensInit(budget, viewers, repr, stored)
    /\ SignedIn(Admin, "admin")

\* One more step of a behaviour of bounded length.
Tick ==
    /\ stepsLeft > 0
    /\ stepsLeft' = stepsLeft - 1

\* Every handler of the Dashboard and the AdminPanel, and every completion of
\* their requests, is one more step; none of them writes the AuthProvider's
\* state or the Dashboard's users list.
Step ==
    /\ Tick
    /\ UNCHANGED << authVars, userListVars >>

(***************************************************************************)
(* Dashboard.                                                              *)
(***************************************************************************)
\* fetchSchedules of the Dashboard completes: setSchedules(response.data).
DashboardFetchSchedules(c) ==
    /\ Step
    /\ dashFetching[c]
    /\ dashSchedules' = [dashSchedules EXCEPT ![c] = db]
    /\ dashFetching' = [dashFetching EXCEPT ![c] = FALSE]
    /\ UNCHANGED << serverVars, respInFlight, lastAlert, panelVars >>

\* fetchSchedules of the Dashboard fails: the catch logs, the list stays.
DashboardFetchFails(c) ==
    /\ Step
    /\ dashFetching[c]
    /\ dashFetching' = [dashFetching EXCEPT ![c] = FALSE]
    /\ UNCHANGED << serverVars, dashSchedules, respInFlight, lastAlert, panelVars >>

\* The user records GET /users returns: every account, with its name.
UserNames == [userId \in Users \cup {Admin} |->
                IF userId = "u1" THEN "Ana" ELSE IF userId = "u2" THEN "Bruno" ELSE "Carla"]
UserDirectory == {[id |-> userId, name |-> UserNames[userId]] : userId \in Users \cup {Admin}}

\* fetchUsers of the Dashboard completes: setUsers(response.data).  The mount
\* effect calls fetchUsers under isAdmin only.
DashboardFetchUsers(c) ==
    /\ Tick
    /\ usersFetching[c]
    /\ dashUsers' = [dashUsers EXCEPT ![c] = UserDirectory]
    /\ usersFetching' = [usersFetching EXCEPT ![c] = FALSE]
    /\ UNCHANGED << authVars, serverVars, dashVars, lastAlert, panelVars >>

\* fetchUsers of the Dashboard fails: the catch logs, the list stays.
DashboardFetchUsersFails(c) ==
    /\ Tick
    /\ usersFetching[c]
    /\ usersFetching' = [usersFetching EXCEPT ![c] = FALSE]
    /\ UNCHANGED << authVars, serverVars, dashVars, dashUsers, lastAlert, panelVars >>

\* ScheduleCard: the text of the row of userId on the Dashboard of c,
\* users.find(u => u.id === userId)?.name || 'Usuário não encontrado'.
NameShown(c, userId) ==
    IF \E u \in dashUsers[c] : u.id = userId
    THEN (CHOOSE u \in dashUsers[c] : u.id = userId).name
    ELSE "Usuário não encontrado"

\* ScheduleCard: the user ids of the rows a card shows for a role.
CardRowUserIds(schedule, functionType) ==
    LET assignment == FindAssignment(schedule.assignments, functionType)
    IN IF assignment = Absent THEN {} ELSE assignment.user_ids

ControlsShown_AnyRow(c, schedule, functionType, userId) ==
    /\ schedule # Absent
    /\ functionType \in Range(getAllFunctions(schedule.day_type))
    /\ userId \in CardRowUserIds(schedule, functionType)
    /\ userId \notin DOMAIN FindAssignment(schedule.assignments, functionType).responses

\* ScheduleCard: the accept/decline buttons are rendered on the row of userId
\* in the card of schedule, seen by viewer c (isCurrentUser && !response).
ControlsShown(c, schedule, functionType, userId) ==
    /\ schedule # Absent
    /\ functionType \in Range(getAllFunctions(schedule.day_type))
    /\ userId \in CardRowUserIds(schedule, functionType)
    /\ userId = c
    /\ userId \notin DOMAIN FindAssignment(schedule.assignments, functionType).responses

\* The body handleScheduleResponse posts; the caller's identity travels with
\* the session, not in the body.
ResponseRequest(c, scheduleId, functionType, status, reason) ==
    [client |-> c, schedule_id |-> scheduleId, function_type |-> functionType,
     status |-> status, reason |-> reason]

Aceitar_WithReason(c, id, functionType) ==
    /\ Step
    /\ ControlsShown(c, dashSchedules[c][id], functionType, c)
    /\ Len(respInFlight) < MaxInFlight
    /\ respInFlight' = Append(respInFlight,
            ResponseRequest(c, dashSchedules[c][id].id, functionType, "accepted", "motivo"))
    /\ UNCHANGED << serverVars, dashSchedules, dashFetching, lastAlert, panelVars >>

\* 'Aceitar' on a row: handleScheduleResponse(id, function_type, 'accepted').
Aceitar(c, id, functionType) ==
    /\ Step
    /\ ControlsShown(c, dashSchedules[c][id], functionType, c)
    /\ Len(respInFlight) < MaxInFlight
    /\ respInFlight' = Append(respInFlight,
            ResponseRequest(c, dashSchedules[c][id].id, functionType, "accepted", ""))
    /\ UNCHANGED << serverVars, dashSchedules, dashFetching, lastAlert, panelVars >>

\* 'Recusar' on a row: prompt, then handleScheduleResponse(.., 'declined', reason || '').
Recusar(c, id, functionType, promptResult) ==
    /\ Step
    /\ ControlsShown(c, dashSchedules[c][id], functionType, c)
    /\ Len(respInFlight) < MaxInFlight
    /\ respInFlight' = Append(respInFlight,
            ResponseRequest(c, dashSchedules[c][id].id, functionType, "declined",
                            IF promptResult = "null" THEN "" ELSE promptResult))
    /\ UNCHANGED << serverVars, dashSchedules, dashFetching, lastAlert, panelVars >>

RemoveAt(seq, i) == [j \in 1..(Len(seq) - 1) |-> IF j < i THEN seq[j] ELSE seq[j + 1]]

\* POST /schedule-response is served and handleScheduleResponse continues:
\* on success the alert and fetchSchedules, on an error the alert alone.
ScheduleResponseServed(i) ==
    /\ Step
    /\ i \in 1..Len(respInFlight)
    /\ LET req == respInFlight[i]
           result == recordResponseResult(db[req.schedule_id], req.function_type, req.client)
       IN /\ db' = IF result = "ok"
                   THEN [db EXCEPT ![req.schedule_id] =
                           recordResponseApply(@, req.function_type, req.client,
                                               req.status, req.reason)]
                   ELSE db
          /\ lastAlert' = [lastAlert EXCEPT ![req.client] =
                   IF result = "ok"
                   THEN [text |-> "Resposta registrada com sucesso!", detail |-> ""]
                   ELSE [text |-> "Erro ao registrar resposta: ", detail |-> result]]
          /\ dashFetching' = IF result = "ok"
                             THEN [dashFetching EXCEPT ![req.client] = TRUE]
                             ELSE dashFetching
          /\ events' = IF result = "ok"
                       THEN Emit(events, responseRecorded(req))
                       ELSE events
    /\ respInFlight' = RemoveAt(respInFlight, i)
    /\ UNCHANGED << nextId, pendingRepr, dashSchedules, panelVars >>

\* POST /schedule-response never reaches the server.
ScheduleResponseFails(i) ==
    /\ Step
    /\ i \in 1..Len(respInFlight)
    /\ lastAlert' = [lastAlert EXCEPT ![respInFlight[i].client] =
            [text |-> "Erro ao registrar resposta: ", detail |-> "Erro desconhecido"]]
    /\ respInFlight' = RemoveAt(respInFlight, i)
    /\ UNCHANGED << serverVars, dashSchedules, dashFetching, panelVars >>

(***************************************************************************)
(* AdminPanel.                                                             *)
(***************************************************************************)
\* fetchSchedules of the AdminPanel completes: the list is replaced by new
\* objects, so the form no longer shares objects with it.
AdminFetchSchedules ==
    /\ Step
    /\ adminFetching
    /\ adminSchedules' = db
    /\ adminFetching' = FALSE
    /\ formAlias' = Null
    /\ UNCHANGED << serverVars, dashVars, lastAlert, showScheduleForm, editingSchedule,
                    scheduleForm, loading, saveInFlight, deleteInFlight >>

AdminFetchFails ==
    /\ Step
    /\ adminFetching
    /\ adminFetching' = FALSE
    /\ UNCHANGED << serverVars, dashVars, lastAlert, adminSchedules, formVars, loading,
                    saveInFlight, deleteInFlight >>

NovaEscala_KeepEditing ==
    /\ Step
    /\ scheduleForm' = [date |-> "", day_type |-> "wednesday",
                        assignments |-> initializeScheduleAssignments("wednesday")]
    /\ editingSchedule' = editingSchedule
    /\ showScheduleForm' = TRUE
    /\ formAlias' = Null
    /\ UNCHANGED << serverVars, dashVars, lastAlert, adminSchedules, adminFetching,
                    loading, saveInFlight, deleteInFlight >>

\* '+ Nova Escala'.
NovaEscala ==
    /\ Step
    /\ scheduleForm' = [date |-> "", day_type |-> "wednesday",
                        assignments |-> initializeScheduleAssignments("wednesday")]
    /\ editingSchedule' = Null
    /\ showScheduleForm' = TRUE
    /\ formAlias' = Null
    /\ UNCHANGED << serverVars, dashVars, lastAlert, adminSchedules, adminFetching,
                    loading, saveInFlight, deleteInFlight >>

\* 'Editar' on a record of the list: the form takes the record's own
\* assignments array.
handleEditSchedule(id) ==
    /\ Step
    /\ adminSchedules[id] # Absent
    /\ editingSchedule' = adminSchedules[id].id
    /\ scheduleForm' = [date |-> adminSchedules[id].date,
                        day_type |-> adminSchedules[id].day_type,
                        assignments |-> adminSchedules[id].assignments]
    /\ showScheduleForm' = TRUE
    /\ formAlias' = id
    /\ UNCHANGED << serverVars, dashVars, lastAlert, adminSchedules, adminFetching,
                    loading, saveInFlight, deleteInFlight >>

\* The date input of the open form.
SetDate(date) ==
    /\ Step
    /\ showScheduleForm
    /\ scheduleForm' = [scheduleForm EXCEPT !.date = date]
    /\ UNCHANGED << serverVars, dashVars, lastAlert, adminSchedules, adminFetching,
                    showScheduleForm, editingSchedule, formAlias, loading,
                    saveInFlight, deleteInFlight >>

handleDayTypeChange_KeepAssignments(dayType) ==
    /\ Step
    /\ showScheduleForm
    /\ scheduleForm' = [scheduleForm EXCEPT !.day_type = dayType]
    /\ formAlias' = Null
    /\ UNCHANGED << serverVars, dashVars, lastAlert, adminSchedules, adminFetching,
                    showScheduleForm, editingSchedule, loading, saveInFlight,
                    deleteInFlight >>

\* The day-type select of the open form.
handleDayTypeChange(dayType) ==
    /\ Step
    /\ showScheduleForm
    /\ scheduleForm' = [scheduleForm EXCEPT !.day_type = dayType,
                            !.assignments = initializeScheduleAssignments(dayType)]
    /\ formAlias' = Null
    /\ UNCHANGED << serverVars, dashVars, lastAlert, adminSchedules, adminFetching,
                    showScheduleForm, editingSchedule, loading, saveInFlight,
                    deleteInFlight >>

\* The number of (role, user) pairs of an assignment list.
RECURSIVE AssignedCount(_)
AssignedCount(assignments) ==
    IF assignments = <<>> THEN 0
    ELSE Cardinality(Head(assignments).user_ids) + AssignedCount(Tail(assignments))

\* The assignment list after handleAssignmentChange: the assignment object at
\* the index gets the selected user ids; its responses are not touched.
ChangedAssignments(assignments, assignmentIndex, userIds) ==
    [assignments EXCEPT ![assignmentIndex].user_ids = userIds]

ChangedAssignments_DropResponses(assignments, assignmentIndex, userIds) ==
    [assignments EXCEPT ![assignmentIndex].user_ids = userIds,
                        ![assignmentIndex].responses =
                            [u \in (DOMAIN @) \cap userIds |-> @[u]]]

\* The multi-select of a role of the open form.  The assignment object is
\* changed in place, so a list record that shares it changes with it.
handleAssignmentChange(assignmentIndex, userIds) ==
    /\ Step
    /\ showScheduleForm
    /\ assignmentIndex \in 1..Len(scheduleForm.assignments)
    /\ LET newAssignments ==
               ChangedAssignments(scheduleForm.assignments, assignmentIndex, userIds)
       IN /\ AssignedCount(newAssignments) <= MaxAssigned
          /\ scheduleForm' = [scheduleForm EXCEPT !.assignments = newAssignments]
          /\ adminSchedules' =
                IF formAlias # Null
                THEN [adminSchedules EXCEPT ![formAlias].assignments = newAssignments]
                ELSE adminSchedules
    /\ UNCHANGED << serverVars, dashVars, lastAlert, adminFetching, showScheduleForm,
                    editingSchedule, formAlias, loading, saveInFlight, deleteInFlight >>

\* 'Cancelar'.
Cancelar ==
    /\ Step
    /\ showScheduleForm
    /\ showScheduleForm' = FALSE
    /\ editingSchedule' = Null
    /\ UNCHANGED << serverVars, dashVars, lastAlert, adminSchedules, adminFetching,
                    scheduleForm, formAlias, loading, saveInFlight, deleteInFlight >>

\* The request handleCreateSchedule sends for the form as it stands.
SaveRequest(editing, form) ==
    [method |-> IF editing # Null THEN "PUT" ELSE "POST", id |-> editing, body |-> form]

handleCreateSchedule_NoRequired ==
    /\ Step
    /\ showScheduleForm
    /\ ~loading
    /\ saveInFlight = Absent
    /\ editingSchedule = Null => nextId <= MaxSchedules
    /\ loading' = TRUE
    /\ saveInFlight' = SaveRequest(editingSchedule, scheduleForm)
    /\ UNCHANGED << serverVars, dashVars, lastAlert, adminSchedules, adminFetching,
                    formVars, deleteInFlight >>

\* Submit of the form: the date input is `required` and the button is
\* disabled while loading.
handleCreateSchedule ==
    /\ Step
    /\ showScheduleForm
    /\ ~loading
    /\ scheduleForm.date # ""
    /\ saveInFlight = Absent
    /\ editingSchedule = Null => nextId <= MaxSchedules
    /\ loading' = TRUE
    /\ saveInFlight' = SaveRequest(editingSchedule, scheduleForm)
    /\ UNCHANGED << serverVars, dashVars, lastAlert, adminSchedules, adminFetching,
                    formVars, deleteInFlight >>

\* The result kind of the server for a save request.
SaveResult(req) ==
    IF ValidateSchedule(req.body) # "ok" THEN "ValidationError"
    ELSE IF req.method = "PUT" /\ db[req.id] = Absent THEN "NotFoundError"
    ELSE "ok"

\* The POST/PUT is served and handleCreateSchedule continues.
SaveServed ==
    /\ Step
    /\ saveInFlight # Absent
    /\ LET req == saveInFlight
           result == SaveResult(req)
       IN IF result = "ok"
          THEN /\ db' = IF req.method = "PUT"
                        THEN [db EXCEPT ![req.id] = updateSchedule(@, req.body, pendingRepr)]
                        ELSE [db EXCEPT ![nextId] = createSchedule(nextId, req.body, pendingRepr)]
               /\ nextId' = IF req.method = "PUT" THEN nextId ELSE nextId + 1
               /\ events' = Emit(events,
                      IF req.method = "PUT"
                      THEN scheduleUpdated(db[req.id], updateSchedule(db[req.id], req.body, pendingRepr))
                      ELSE scheduleCreated(createSchedule(nextId, req.body, pendingRepr)))
               /\ lastAlert' = [lastAlert EXCEPT ![Admin] =
                      [text |-> IF req.method = "PUT"
                                THEN "Escala atualizada com sucesso!"
                                ELSE "Escala criada com sucesso!", detail |-> ""]]
               /\ scheduleForm' = InitialScheduleForm
               /\ showScheduleForm' = FALSE
               /\ editingSchedule' = Null
               /\ formAlias' = Null
               /\ adminFetching' = TRUE
          ELSE /\ lastAlert' = [lastAlert EXCEPT ![Admin] =
                      [text |-> "Erro ao salvar escala: ", detail |-> result]]
               /\ UNCHANGED << db, nextId, events, formVars, adminFetching >>
    /\ loading' = FALSE
    /\ saveInFlight' = Absent
    /\ UNCHANGED << pendingRepr, dashVars, adminSchedules, deleteInFlight >>

SaveFails_KeepsLoading ==
    /\ Step
    /\ saveInFlight # Absent
    /\ lastAlert' = [lastAlert EXCEPT ![Admin] =
            [text |-> "Erro ao salvar escala: ", detail |-> "Erro desconhecido"]]
    /\ loading' = loading
    /\ saveInFlight' = Absent
    /\ UNCHANGED << serverVars, dashVars, adminSchedules, adminFetching, formVars,
                    deleteInFlight >>

\* The POST/PUT never reaches the server.
SaveFails ==
    /\ Step
    /\ saveInFlight # Absent
    /\ lastAlert' = [lastAlert EXCEPT ![Admin] =
            [text |-> "Erro ao salvar escala: ", detail |-> "Erro desconhecido"]]
    /\ loading' = FALSE
    /\ saveInFlight' = Absent
    /\ UNCHANGED << serverVars, dashVars, adminSchedules, adminFetching, formVars,
                    deleteInFlight >>

\* 'Excluir' on a record of the list: the DELETE is sent when window.confirm
\* answers true, and nothing happens otherwise.
handleDeleteSchedule(id, confirmed) ==
    /\ Step
    /\ adminSchedules[id] # Absent
    /\ deleteInFlight = Null
    /\ deleteInFlight' = IF confirmed THEN adminSchedules[id].id ELSE Null
    /\ UNCHANGED << serverVars, dashVars, lastAlert, adminSchedules, adminFetching,
                    formVars, loading, saveInFlight >>

DeleteServed_NoRefresh ==
    /\ Step
    /\ deleteInFlight # Null
    /\ IF db[deleteInFlight] # Absent
       THEN /\ db' = [db EXCEPT ![deleteInFlight] = Absent]
            /\ events' = Emit(events, scheduleDeleted(deleteInFlight))
            /\ lastAlert' = [lastAlert EXCEPT ![Admin] =
                   [text |-> "Escala excluída com sucesso!", detail |-> ""]]
            /\ adminFetching' = adminFetching
       ELSE /\ lastAlert' = [lastAlert EXCEPT ![Admin] =
                   [text |-> "Erro ao excluir escala: ", detail |-> "NotFoundError"]]
            /\ UNCHANGED << db, events, adminFetching >>
    /\ deleteInFlight' = Null
    /\ UNCHANGED << nextId, pendingRepr, dashVars, adminSchedules, formVars, loading,
                    saveInFlight >>

\* The DELETE is served and handleDeleteSchedule continues.
DeleteServed ==
    /\ Step
    /\ deleteInFlight # Null
    /\ IF db[deleteInFlight] # Absent
       THEN /\ db' = [db EXCEPT ![deleteInFlight] = Absent]
            /\ events' = Emit(events, scheduleDeleted(deleteInFlight))
            /\ lastAlert' = [lastAlert EXCEPT ![Admin] =
                   [text |-> "Escala excluída com sucesso!", detail |-> ""]]
            /\ adminFetching' = TRUE
       ELSE /\ lastAlert' = [lastAlert EXCEPT ![Admin] =
                   [text |-> "Erro ao excluir escala: ", detail |-> "NotFoundError"]]
            /\ UNCHANGED << db, events, adminFetching >>
    /\ deleteInFlight' = Null
    /\ UNCHANGED << nextId, pendingRepr, dashVars, adminSchedules, formVars, loading,
                    saveInFlight >>

(***************************************************************************)
(* AuthProvider, LoginScreen and the tabs of the Dashboard.                *)
(***************************************************************************)
\* Everything the Dashboard and the AdminPanel hold, and the server.
screenVars == << serverVars, dashVars, lastAlert, panelVars, userListVars >>

\* logout(): the token is removed everywhere and the user is null; AppContent
\* then renders the LoginScreen, so the Dashboard's state is gone and its next
\* mount starts on the 'schedules' tab.
LoggedOut ==
    /\ storedToken' = NoToken
    /\ token' = NoToken
    /\ user' = Absent
    /\ authHeader' = NoToken
    /\ activeTab' = "schedules"

\* setUser(data): when there was no user, AppContent replaces the LoginScreen
\* by a new Dashboard; the LoginScreen that sent a login still in flight is
\* unmounted, and the next LoginScreen starts with its initial state.
UserSet(data) ==
    /\ user' = data
    /\ IF user = Absent
       THEN /\ activeTab' = "schedules"
            /\ loginError' = ""
            /\ loginLoading' = FALSE
       ELSE UNCHANGED << activeTab, loginError, loginLoading >>

\* The login in flight, marked as sent by a LoginScreen no longer mounted.
Unmounted(request) ==
    IF request = Absent THEN Absent ELSE [request EXCEPT !.stale = TRUE]

\* LoginScreen handleSubmit: the button is disabled while loading.
LoginSubmit(account) ==
    /\ Tick
    /\ user = Absent
    /\ ~loginLoading
    /\ loginInFlight = Absent
    /\ loginLoading' = TRUE
    /\ loginError' = ""
    /\ loginInFlight' = [account |-> account, stale |-> FALSE]
    /\ UNCHANGED << user, token, storedToken, authHeader, meInFlight, activeTab,
                    screenVars >>

\* POST /login succeeds and login continues; the new token makes the effect
\* on [token] run: the header is set and fetchUserInfo sends GET /me.
LoginServed(role) ==
    /\ Tick
    /\ loginInFlight # Absent
    /\ role \in RolesOf_Account(loginInFlight.account)
    /\ Len(meInFlight) < MaxMeInFlight
    /\ storedToken' = TokenOf(loginInFlight.account)
    /\ token' = TokenOf(loginInFlight.account)
    /\ authHeader' = TokenOf(loginInFlight.account)
    /\ user' = UserData(loginInFlight.account, role)
    /\ activeTab' = IF user = Absent THEN "schedules" ELSE activeTab
    /\ loginError' = ""
    /\ loginLoading' = FALSE
    /\ meInFlight' = Append(meInFlight, [token |-> TokenOf(loginInFlight.account)])
    /\ loginInFlight' = Absent
    /\ UNCHANGED screenVars

\* The details a failed POST /login may carry; '' stands for a failure with
\* no detail (no response at all).
LoginDetails == {"", "Credenciais inválidas"}

\* error.response?.data?.detail || 'Erro no login'
LoginMessage(detail) == IF detail = "" THEN "Erro no login" ELSE detail

\* POST /login fails: login returns {success: false, message}, and
\* handleSubmit sets the error and the loading flag of the LoginScreen that
\* sent it, which does nothing when that LoginScreen is no longer mounted.
LoginFails(detail) ==
    /\ Tick
    /\ loginInFlight # Absent
    /\ IF loginInFlight.stale
       THEN UNCHANGED << loginError, loginLoading >>
       ELSE /\ loginError' = LoginMessage(detail)
            /\ loginLoading' = FALSE
    /\ loginInFlight' = Absent
    /\ UNCHANGED << user, token, storedToken, authHeader, meInFlight, activeTab,
                    screenVars >>

\* GET /me succeeds and fetchUserInfo continues with setUser(response.data).
MeServed(i, role) ==
    /\ Tick
    /\ i \in 1..Len(meInFlight)
    /\ role \in RolesOf_Account(AccountOf(meInFlight[i].token))
    /\ UserSet(UserData(AccountOf(meInFlight[i].token), role))
    /\ loginInFlight' = IF user = Absent THEN Unmounted(loginInFlight) ELSE loginInFlight
    /\ meInFlight' = RemoveAt(meInFlight, i)
    /\ UNCHANGED << token, storedToken, authHeader, screenVars >>

\* GET /me fails and the catch of fetchUserInfo calls logout().
MeFails(i) ==
    /\ Tick
    /\ i \in 1..Len(meInFlight)
    /\ LoggedOut
    /\ meInFlight' = RemoveAt(meInFlight, i)
    /\ UNCHANGED << loginInFlight, loginError, loginLoading, screenVars >>

\* 'Sair' in the header of the Dashboard.
Sair ==
    /\ Tick
    /\ user # Absent
    /\ LoggedOut
    /\ UNCHANGED << meInFlight, loginInFlight, loginError, loginLoading, screenVars >>

\* A tab button of the Dashboard; 'Administração' is there under isAdmin.
SetActiveTab(tab) ==
    /\ Tick
    /\ user # Absent
    /\ tab = "admin" => user.role = "admin"
    /\ activeTab' = tab
    /\ UNCHANGED << user, token, storedToken, authHeader, meInFlight, loginInFlight,
                    loginError, loginLoading, screenVars >>

AdminPanelRendered_TabOnly ==
    /\ user # Absent
    /\ activeTab = "admin"

\* AppContent renders the Dashboard when there is a user, and the Dashboard
\* renders <AdminPanel /> under activeTab === 'admin' && isAdmin.
AdminPanelRendered ==
    /\ user # Absent
    /\ activeTab = "admin"
    /\ user.role = "admin"

\* AppContent renders the LoginScreen when there is no user.
LoginScreenRendered == user = Absent

NextAuth ==
    \/ \E account \in Accounts : LoginSubmit(account)
    \/ \E role \in {"admin", "user"} : LoginServed(role)
    \/ \E detail \in LoginDetails : LoginFails(detail)
    \/ \E i \in 1..MaxMeInFlight, role \in {"admin", "user"} : MeServed(i, role)
    \/ \E i \in 1..MaxMeInFlight : MeFails(i)
    \/ Sair
    \/ \E tab \in {"schedules", "notifications", "admin"} : SetActiveTab(tab)

\* App mounts: the token is the one localStorage holds, there is no user yet,
\* and when there is a token the effect has set the header and sent GET /me.
InitAuth ==
    /\ ScreensInit(MaxAuthSteps, {}, "none", << >>)
    /\ storedToken \in {NoToken} \cup {TokenOf(account) : account \in Accounts}
    /\ token = storedToken
    /\ authHeader = storedToken
    /\ meInFlight = IF storedToken = NoToken THEN <<>> ELSE << [token |-> storedToken] >>
    /\ user = Absent
    /\ loginInFlight = Absent
    /\ loginError = ""
    /\ loginLoading = FALSE
    /\ activeTab = "schedules"

SpecAuth == InitAuth /\ [][NextAuth]_vars

\* A volunteer (u1) and the administrator, who fills the first role of the
\* form with any of the users.
Next ==
    \/ \E c \in Viewers : DashboardFetchSchedules(c)
    \/ \E c \in Viewers : DashboardFetchFails(c)
    \/ \E c \in Viewers, id \in ScheduleIds, f \in RoleTypes : Aceitar(c, id, f)
    \/ \E c \in Viewers, id \in ScheduleIds, f \in RoleTypes, p \in {"null", "motivo"} :
            Recusar(c, id, f, p)
    \/ \E i \in 1..MaxInFlight : ScheduleResponseServed(i)
    \/ \E i \in 1..MaxInFlight : ScheduleResponseFails(i)
    \/ AdminFetchSchedules
    \/ AdminFetchFails
    \/ NovaEscala
    \/ \E id \in ScheduleIds : handleEditSchedule(id)
    \/ \E d \in Dates \cup {""} : SetDate(d)
    \/ \E d \in {"wednesday", "friday"} : handleDayTypeChange(d)
    \/ \E ids \in SUBSET Users : handleAssignmentChange(1, ids)
    \/ Cancelar
    \/ handleCreateSchedule
    \/ SaveServed
    \/ SaveFails
    \/ \E id \in ScheduleIds, confirmed \in BOOLEAN : handleDeleteSchedule(id, confirmed)
    \/ DeleteServed

\* The form a record stored before the sessions start was created from: a
\* day type, and user ids for its first role.
EarlierForm(dayType, userIds) ==
    [date |-> "d1", day_type |-> dayType,
     assignments |-> ChangedAssignments(initializeScheduleAssignments(dayType), 1, userIds)]

\* The sessions start against a server that holds one schedule, created
\* earlier from the form.
Init ==
    \E repr \in {"entry", "none"}, dayType \in {"wednesday"},
       userIds \in SUBSET Users :
        InitWith(MaxSteps, Viewers, repr,
                 << createSchedule(1, EarlierForm(dayType, userIds), repr) >>)

Spec == Init /\ [][Next]_vars

\* The administrator alone, with the Dashboard and the AdminPanel of that
\* session: every day type and every role of the form.
NextAdmin ==
    \/ DashboardFetchSchedules(Admin)
    \/ DashboardFetchFails(Admin)
    \/ AdminFetchSchedules
    \/ AdminFetchFails
    \/ NovaEscala
    \/ \E id \in ScheduleIds : handleEditSchedule(id)
    \/ \E d \in Dates \cup {""} : SetDate(d)
    \/ \E d \in DayTypes : handleDayTypeChange(d)
    \/ \E i \in 1..4, ids \in SUBSET Users : handleAssignmentChange(i, ids)
    \/ Cancelar
    \/ handleCreateSchedule
    \/ SaveServed
    \/ SaveFails
    \/ \E id \in ScheduleIds, confirmed \in BOOLEAN : handleDeleteSchedule(id, confirmed)
    \/ DeleteServed

\* The administrator's session starts against a server without schedules.
InitAdmin == \E repr \in {"entry", "none"} : InitWith(MaxAdminSteps, {Admin}, repr, << >>)

SpecAdmin == InitAdmin /\ [][NextAdmin]_vars

\* Records as GET /schedules may return them from the document store: one
\* written through create/update, and documents that do not follow the table
\* of their day type (a role outside it, required roles missing, a day type
\* and a role the frontend does not know).
Accepted == [status |-> "accepted", reason |-> ""]
Declined == [status |-> "declined", reason |-> "motivo"]
StoredAssignmentOf(functionType, userIds, responses) ==
    [function_type |-> functionType, user_ids |-> userIds, responses |-> responses]

StoredRecords ==
    { [id |-> 1, date |-> "d1", day_type |-> "wednesday", assignments |->
          << StoredAssignmentOf("pregacao", {"u1"}, [u \in {"u1"} |-> Accepted]),
             StoredAssignmentOf("limpeza", {"u2"}, [u \in {"u2"} |-> Declined]),
             EmptyAssignment("louvor"), EmptyAssignment("introdutoria") >>],
      [id |-> 1, date |-> "d1", day_type |-> "friday", assignments |->
          << StoredAssignmentOf("pregacao", {"u1"}, NoResponses),
             EmptyAssignment("portaria"),
             StoredAssignmentOf("limpeza", {"u2"}, [u \in {"u2"} |-> Accepted]) >>],
      [id |-> 1, date |-> "d1", day_type |-> "wednesday", assignments |->
          << StoredAssignmentOf("pregacao", {"u1"}, NoResponses) >>],
      [id |-> 1, date |-> "d1", day_type |-> "sunday", assignments |->
          << StoredAssignmentOf("som", {"u1"}, NoResponses) >>] }

\* The administrator's session against a server that holds one such record,
\* or none yet.
NextStored ==
    \/ DashboardFetchSchedules(Admin)
    \/ AdminFetchSchedules
    \/ NovaEscala
    \/ \E id \in ScheduleIds : handleEditSchedule(id)
    \/ \E d \in Dates : SetDate(d)
    \/ \E d \in DayTypes : handleDayTypeChange(d)
    \/ \E i \in 1..2, ids \in SUBSET Users : handleAssignmentChange(i, ids)
    \/ Cancelar
    \/ handleCreateSchedule
    \/ SaveServed
    \/ SaveFails

InitStored ==
    \E repr \in {"entry", "none"},
       stored \in {<< >>} \cup {<< record >> : record \in StoredRecords} :
        InitWith(MaxStoredSteps, {Admin}, repr, stored)

SpecStored == InitStored /\ [][NextStored]_vars

\* The administrator saving the form, in behaviours where a request that was
\* sent completes: an HTTP request settles, with a response or with an
\* error, so the await of handleCreateSchedule returns.  The handlers leave
\* the last step of a behaviour to the completion of a request in flight.
Reserve == stepsLeft > (IF saveInFlight # Absent THEN 1 ELSE 0)

SaveNovaEscala == Reserve /\ NovaEscala
SaveEditar(id) == Reserve /\ handleEditSchedule(id)
SaveSetDate(d) == Reserve /\ SetDate(d)
SaveDayType(d) == Reserve /\ handleDayTypeChange(d)
SaveCancelar == Reserve /\ Cancelar
SaveFetched == Reserve /\ AdminFetchSchedules
SaveSubmit == stepsLeft > 1 /\ handleCreateSchedule

NextSave ==
    \/ SaveFetched
    \/ SaveNovaEscala
    \/ \E id \in ScheduleIds : SaveEditar(id)
    \/ \E d \in Dates : SaveSetDate(d)
    \/ \E d \in DayTypes : SaveDayType(d)
    \/ SaveCancelar
    \/ SaveSubmit
    \/ SaveServed
    \/ SaveFails

InitSave ==
    \E repr \in {"entry", "none"} :
        \E stored \in {<< >>, << createSchedule(1, EarlierForm("wednesday", {"u1"}), repr) >>} :
            InitWith(MaxSaveSteps, {Admin}, repr, stored)

SpecSave == InitSave /\ [][NextSave]_vars /\ WF_vars(SaveServed) /\ WF_vars(SaveFails)

\* The Dashboards of the volunteer and of the administrator, with their
\* schedule and user lists and the responses of the volunteer.
NextNames ==
    \/ \E c \in Viewers : DashboardFetchSchedules(c)
    \/ \E c \in Viewers : DashboardFetchFails(c)
    \/ \E c \in Viewers : DashboardFetchUsers(c)
    \/ \E c \in Viewers : DashboardFetchUsersFails(c)
    \/ \E c \in Viewers, id \in ScheduleIds, f \in RoleTypes : Aceitar(c, id, f)
    \/ \E c \in Viewers, id \in ScheduleIds, f \in RoleTypes, p \in PromptResults :
            Recusar(c, id, f, p)
    \/ \E i \in 1..MaxInFlight : ScheduleResponseServed(i)
    \/ \E i \in 1..MaxInFlight : ScheduleResponseFails(i)

SpecNames == Init /\ [][NextNames]_vars

(***************************************************************************)
(* What the screens show.                                                  *)
(***************************************************************************)
\* ScheduleCard: the (role, required count) rows of the card of a schedule.
CardRows(schedule) ==
    LET allFunctions == getAllFunctions(schedule.day_type)
    IN [i \in 1..Len(allFunctions) |->
          << allFunctions[i], getRequiredCount(allFunctions[i], schedule.day_type) >>]

VacancySlots_OnlyWithAssignment(schedule, functionType) ==
    LET assignment == FindAssignment(schedule.assignments, functionType)
        requiredCount == getRequiredCount(functionType, schedule.day_type)
    IN IF assignment # Absent /\ Cardinality(assignment.user_ids) < requiredCount
       THEN requiredCount - Cardinality(assignment.user_ids)
       ELSE 0

\* ScheduleCard: the number of 'Vaga disponível' slots in the block of a role.
VacancySlots(schedule, functionType) ==
    LET assignment == FindAssignment(schedule.assignments, functionType)
        requiredCount == getRequiredCount(functionType, schedule.day_type)
    IN (IF assignment # Absent /\ Cardinality(assignment.user_ids) < requiredCount
        THEN requiredCount - Cardinality(assignment.user_ids)
        ELSE 0)
       + (IF assignment = Absent THEN requiredCount ELSE 0)

\* The schedules a viewer's Dashboard holds.
Shown(c) == {dashSchedules[c][id] : id \in ScheduleIds} \ {Absent}

(***************************************************************************)
(* Properties.                                                             *)
(***************************************************************************)
\* The requirement table as stated: role and headcount, in order.
StatedTable ==
    [wednesday |-> << <<"pregacao", 1>>, <<"limpeza", 3>>, <<"louvor", 3>>,
                      <<"introdutoria", 1>> >>,
     saturday  |-> << <<"pregacao", 1>>, <<"limpeza", 3>>, <<"louvor", 3>>,
                      <<"introdutoria", 1>> >>,
     friday    |-> << <<"pregacao", 1>>, <<"portaria", 1>> >>]

\* C1: for every schedule a Dashboard shows, of any of the three day types,
\* the roles and required counts that getAllFunctions and getRequiredCount
\* give for its card are exactly the rows of the stated table, in order.
C1_CardRowsAreTheTable ==
    \A c \in Viewers : \A schedule \in Shown(c) :
        CardRows(schedule) = StatedTable[schedule.day_type]

C1_Witness ==
    \E schedule \in Shown(Admin) : schedule.day_type = "saturday"

\* The assignment list of a schedule of a day type with nothing assigned.
EmptyAssignmentsFor(dayType) ==
    [i \in 1..Len(requirementsFor(dayType)) |->
        [function_type |-> requirementsFor(dayType)[i].roleType,
         user_ids |-> {}, responses |-> NoResponses]]

\* C2: after '+ Nova Escala' and after a change of the day type, the form
\* holds exactly one assignment per role the day type requires, each with no
\* user id and no response.
C2_NewFormHasEmptyAssignmentPerRole ==
    [][(NovaEscala \/ \E d \in DayTypes : handleDayTypeChange(d))
        => scheduleForm'.assignments = EmptyAssignmentsFor(scheduleForm'.day_type)]_vars

C2_Witness ==
    /\ showScheduleForm
    /\ editingSchedule = Null
    /\ scheduleForm.day_type = "friday"
    /\ scheduleForm.assignments = EmptyAssignmentsFor("friday")

\* An assignment list holds exactly the roles of the day type, in the
\* table's order, each once.
RolesCanonical(dayType, assignments) ==
    /\ Len(assignments) = Len(requirementsFor(dayType))
    /\ \A i \in 1..Len(assignments) :
          assignments[i].function_type = requirementsFor(dayType)[i].roleType

StoredAssignments ==
    UNION {Range(db[id].assignments) : id \in {i \in ScheduleIds : db[i] # Absent}}

ClientAssignments ==
    UNION {Range(adminSchedules[id].assignments) :
              id \in {i \in ScheduleIds : adminSchedules[i] # Absent}}
    \cup UNION {Range(schedule.assignments) : schedule \in UNION {Shown(c) : c \in Viewers}}
    \cup (IF showScheduleForm THEN Range(scheduleForm.assignments) ELSE {})
    \cup (IF saveInFlight # Absent THEN Range(saveInFlight.body.assignments) ELSE {})

\* C4: in every state, every assignment's response keys are among its user
\* ids (a user id removed in the form takes its response entry with it).
C4_ResponseKeysWithinUserIds ==
    \A a \in StoredAssignments \cup ClientAssignments : DOMAIN a.responses \subseteq a.user_ids

\* C5: after handleAssignmentChange has added a user id to an assignment, the
\* assignment's responses hold a Pending entry for that user id.
C5_AddedUserHasPendingEntry ==
    [][\A i \in 1..4, ids \in SUBSET Users :
          handleAssignmentChange(i, ids) =>
             \A u \in ids \ scheduleForm.assignments[i].user_ids :
                /\ u \in DOMAIN scheduleForm'.assignments[i].responses
                /\ scheduleForm'.assignments[i].responses[u].status = "pending"]_vars

\* C6: on every card a Dashboard shows, the accept/decline controls are on
\* the viewer's own row exactly when the viewer's status there is Pending,
\* be it a Pending entry or no entry.
C6_ControlsExactlyWhenPending ==
    \A c \in Viewers : \A schedule \in Shown(c) :
        \A f \in Range(getAllFunctions(schedule.day_type)) :
            c \in CardRowUserIds(schedule, f) =>
               (ControlsShown(c, schedule, f, c)
                   <=> StatusOf(FindAssignment(schedule.assignments, f), c) = "pending")

Terminal == {"accepted", "declined"}

\* The assignment of a role in a stored record, or Absent.
StoredAssignment(store, id, functionType) ==
    IF store[id] = Absent THEN Absent
    ELSE FindAssignment(store[id].assignments, functionType)

\* The user holds a terminal response in the role of the stored record.
HasTerminal(store, id, functionType, userId) ==
    LET a == StoredAssignment(store, id, functionType)
    IN /\ a # Absent
       /\ userId \in a.user_ids
       /\ StatusOf(a, userId) \in Terminal

\* The user's response in the role is the same in both stores.
SameResponse(before, after, id, functionType, userId) ==
    LET a == StoredAssignment(before, id, functionType)
        b == StoredAssignment(after, id, functionType)
    IN /\ b # Absent
       /\ userId \in DOMAIN b.responses
       /\ b.responses[userId] = a.responses[userId]

InvalidStateAlert == [text |-> "Erro ao registrar resposta: ", detail |-> "InvalidStateError"]
AuthorizationAlert == [text |-> "Erro ao registrar resposta: ", detail |-> "AuthorizationError"]
SuccessAlert == [text |-> "Resposta registrada com sucesso!", detail |-> ""]

\* C7: a response request served when its caller already holds Accepted or
\* Declined in that role fails with InvalidStateError and changes nothing on
\* the server, and no served request changes a terminal response.
C7_TerminalResponseIsFinal ==
    [][\A i \in 1..MaxInFlight :
          ScheduleResponseServed(i) =>
             LET req == respInFlight[i]
             IN /\ HasTerminal(db, req.schedule_id, req.function_type, req.client)
                    => /\ db' = db
                       /\ lastAlert'[req.client] = InvalidStateAlert
                /\ \A id \in ScheduleIds, f \in RoleTypes, u \in Users :
                      HasTerminal(db, id, f, u) => SameResponse(db, db', id, f, u)]_vars

C7_Witness ==
    /\ lastAlert["u1"] = InvalidStateAlert
    /\ \E id \in ScheduleIds, f \in RoleTypes : HasTerminal(db, id, f, "u1")

\* Two requests are for the same (schedule, role, user).
SameTriple(r1, r2) ==
    /\ r1.schedule_id = r2.schedule_id
    /\ r1.function_type = r2.function_type
    /\ r1.client = r2.client

\* C8: when one of the requests in flight for a (schedule, role, user) is
\* served with success, the response it wrote is terminal, and every other
\* request in flight for the same triple is one the server now rejects with
\* InvalidStateError: of two concurrent calls at most one succeeds.
C8_AtMostOneConcurrentSuccess ==
    [][\A i \in 1..MaxInFlight :
          (/\ ScheduleResponseServed(i)
           /\ recordResponseResult(db[respInFlight[i].schedule_id],
                                   respInFlight[i].function_type,
                                   respInFlight[i].client) = "ok")
          => LET req == respInFlight[i]
             IN /\ HasTerminal(db', req.schedule_id, req.function_type, req.client)
                /\ \A j \in 1..Len(respInFlight') :
                      SameTriple(respInFlight'[j], req) =>
                         recordResponseResult(db'[req.schedule_id], req.function_type,
                                              req.client) = "InvalidStateError"]_vars

C8_Witness ==
    /\ lastAlert["u1"] = SuccessAlert
    /\ stepsLeft > 0
    /\ \E j \in 1..Len(respInFlight) :
          /\ respInFlight[j].client = "u1"
          /\ HasTerminal(db, respInFlight[j].schedule_id,
                         respInFlight[j].function_type, "u1")

OthersUntouched(before, after, caller) ==
    \A id \in ScheduleIds :
        before[id] # Absent =>
           /\ after[id] # Absent
           /\ Len(after[id].assignments) = Len(before[id].assignments)
           /\ \A k \in 1..Len(before[id].assignments) :
                 LET a == before[id].assignments[k]
                     b == after[id].assignments[k]
                 IN /\ DOMAIN b.responses \ {caller} = DOMAIN a.responses \ {caller}
                    /\ \A u \in DOMAIN a.responses \ {caller} : b.responses[u] = a.responses[u]

\* C10: the accept/decline controls are only ever on the row of the viewer's
\* own user id, for the administrator as for a volunteer; a request served
\* for a caller who is not among the role's user ids fails with
\* AuthorizationError and changes nothing, and a served request never changes
\* the response of anyone but its caller.
C10_OnlyTheAssigneeAnswers ==
    /\ [](\A c \in Viewers : \A schedule \in Shown(c) :
            \A f \in RoleTypes, u \in Users \cup {Admin} :
               ControlsShown(c, schedule, f, u) => u = c)
    /\ [][\A i \in 1..MaxInFlight :
            ScheduleResponseServed(i) =>
               LET req == respInFlight[i]
                   a == StoredAssignment(db, req.schedule_id, req.function_type)
               IN /\ (a # Absent /\ req.client \notin a.user_ids)
                       => /\ db' = db
                          /\ lastAlert'[req.client] = AuthorizationAlert
                  /\ OthersUntouched(db, db', req.client)]_vars

C10_Witness ==
    /\ lastAlert["u1"] = AuthorizationAlert
    /\ \E schedule \in Shown("u1") : \E f \in RoleTypes :
          "u1" \in CardRowUserIds(schedule, f)

\* The roles an assignment list holds.
RolesOf(assignments) == {assignments[i].function_type : i \in 1..Len(assignments)}

\* The roles a day type requires.
RequiredRoles(dayType) ==
    {requirementsFor(dayType)[i].roleType : i \in 1..Len(requirementsFor(dayType))}

\* C11: a change of the day type in the form leaves exactly the roles of the
\* new day type, those the form did not have before being empty; and when the
\* update that changes a record's day type is served, the stored record holds
\* exactly the roles of the new day type, the roles it did not have before
\* carrying the supplied user ids and no recorded answer.
C11_DayTypeChangeRecomputesRoles ==
    [][/\ \A d \in DayTypes :
            handleDayTypeChange(d) =>
               /\ RolesCanonical(d, scheduleForm'.assignments)
               /\ \A i \in 1..Len(scheduleForm'.assignments) :
                     scheduleForm'.assignments[i].function_type
                            \notin RolesOf(scheduleForm.assignments)
                       => scheduleForm'.assignments[i] =
                             EmptyAssignment(scheduleForm'.assignments[i].function_type)
       /\ (/\ SaveServed
           /\ saveInFlight.method = "PUT"
           /\ SaveResult(saveInFlight) = "ok"
           /\ saveInFlight.body.day_type # db[saveInFlight.id].day_type)
          => LET id == saveInFlight.id
                 body == saveInFlight.body
             IN /\ db'[id].day_type = body.day_type
                /\ RolesCanonical(body.day_type, db'[id].assignments)
                /\ \A i \in 1..Len(db'[id].assignments) :
                      LET a == db'[id].assignments[i]
                      IN a.function_type \notin RolesOf(db[id].assignments)
                           => /\ a.user_ids = SuppliedUserIds(body.assignments, a.function_type)
                              /\ \A u \in a.user_ids : StatusOf(a, u) = "pending"]_vars

\* The Wednesday record with a recorded answer under Cleaning, still in the
\* administrator's list, has been updated to Friday on the server.
C11_Witness ==
    /\ db[1] # Absent
    /\ db[1].day_type = "friday"
    /\ RolesOf(db[1].assignments) = {"pregacao", "portaria"}
    /\ adminSchedules[1] # Absent
    /\ adminSchedules[1].day_type = "wednesday"
    /\ FindAssignment(adminSchedules[1].assignments, "limpeza") # Absent
    /\ DOMAIN FindAssignment(adminSchedules[1].assignments, "limpeza").responses # {}

\* C12: across a change of the day type in the form, the assignment of every
\* role that the form had and the new day type requires keeps its user ids
\* and its responses.
C12_SharedRolesKeepUserIds ==
    [][\A d \in DayTypes :
          (handleDayTypeChange(d) /\ d # scheduleForm.day_type) =>
             \A f \in RolesOf(scheduleForm.assignments) \cap RequiredRoles(d) :
                LET old == FindAssignment(scheduleForm.assignments, f)
                    new == FindAssignment(scheduleForm'.assignments, f)
                IN /\ new # Absent
                   /\ new.user_ids = old.user_ids
                   /\ new.responses = old.responses]_vars

\* AdminPanel schedules list: the roles shown for a record, one block per
\* assignment of the record.
AdminListRoles(schedule) == RolesOf(schedule.assignments)

\* ScheduleCard: the roles shown for a record, one block per role of
\* getAllFunctions.
CardRoles(schedule) == Range(getAllFunctions(schedule.day_type))

\* C13: for a record of a recognised day type, no role outside the requirement
\* table of that day type is shown by a card, shown by the AdminPanel list,
\* held by the edit form, or sent in a save request.
C13_RolesOutsideTableDropped ==
    /\ \A c \in Viewers : \A schedule \in Shown(c) :
          schedule.day_type \in DayTypes =>
             CardRoles(schedule) \subseteq RequiredRoles(schedule.day_type)
    /\ \A id \in ScheduleIds :
          (adminSchedules[id] # Absent /\ adminSchedules[id].day_type \in DayTypes) =>
             AdminListRoles(adminSchedules[id]) \subseteq RequiredRoles(adminSchedules[id].day_type)
    /\ (showScheduleForm /\ scheduleForm.day_type \in DayTypes) =>
          RolesOf(scheduleForm.assignments) \subseteq RequiredRoles(scheduleForm.day_type)
    /\ (saveInFlight # Absent /\ saveInFlight.body.day_type \in DayTypes) =>
          RolesOf(saveInFlight.body.assignments)
              \subseteq RequiredRoles(saveInFlight.body.day_type)

\* The required count the requirement table gives a role of a day type.
RequiredCountOf(functionType, dayType) ==
    LET req == requirementsFor(dayType)
    IN req[CHOOSE i \in 1..Len(req) : req[i].roleType = functionType].requiredCount

\* An assignment list holds more user ids in some role than the table requires.
OverStaffed(dayType, assignments) ==
    \E i \in 1..Len(assignments) :
        Cardinality(assignments[i].user_ids) >
            RequiredCountOf(assignments[i].function_type, dayType)

\* C14: the form shows the over-staffing warning under a role exactly when the
\* role holds more user ids than the table requires; an over-staffed form can
\* be submitted like any other, and a served request with an over-staffed
\* body succeeds and stores every supplied user id.
C14_OverStaffingWarnsAndSaves ==
    /\ [](showScheduleForm =>
            /\ \A i \in 1..Len(scheduleForm.assignments) :
                  WarningShown(scheduleForm, i) <=>
                     Cardinality(scheduleForm.assignments[i].user_ids) >
                        RequiredCountOf(scheduleForm.assignments[i].function_type,
                                        scheduleForm.day_type)
            /\ (/\ OverStaffed(scheduleForm.day_type, scheduleForm.assignments)
                /\ ~loading
                /\ scheduleForm.date # ""
                /\ stepsLeft > 0
                /\ editingSchedule = Null => nextId <= MaxSchedules)
               => ENABLED handleCreateSchedule)
    /\ [][(/\ SaveServed
           /\ ValidateSchedule(saveInFlight.body) = "ok"
           /\ saveInFlight.method = "PUT" => db[saveInFlight.id] # Absent
           /\ OverStaffed(saveInFlight.body.day_type, saveInFlight.body.assignments))
          => LET id == IF saveInFlight.method = "PUT" THEN saveInFlight.id ELSE nextId
             IN /\ lastAlert'[Admin].detail = ""
                /\ db'[id] # Absent
                /\ \A i \in 1..Len(saveInFlight.body.assignments) :
                      LET sent == saveInFlight.body.assignments[i]
                      IN FindAssignment(db'[id].assignments, sent.function_type).user_ids
                            = sent.user_ids]_vars

\* A schedule created with two users in Preaching, which requires one.
C14_Witness ==
    /\ lastAlert[Admin] = [text |-> "Escala criada com sucesso!", detail |-> ""]
    /\ db[1] # Absent
    /\ OverStaffed(db[1].day_type, db[1].assignments)

\* The number of user ids a record assigns to a role: 0 without an assignment.
AssignedTo(schedule, functionType) ==
    Cardinality(CardRowUserIds(schedule, functionType))

\* An assignment list leaves some role of the day type short of its required
\* count.
UnderStaffed(dayType, assignments) ==
    \E f \in RequiredRoles(dayType) :
        Cardinality(SuppliedUserIds(assignments, f)) < RequiredCountOf(f, dayType)

Max(a, b) == IF a >= b THEN a ELSE b

\* C15: the card of a schedule has a block for every role its day type
\* requires, with exactly max(0, required - assigned) vacancy slots, assigned
\* being 0 when the record has no assignment for the role; and a served create
\* or update with an under-staffed body succeeds.
C15_VacanciesShownAndAccepted ==
    /\ [](\A c \in Viewers : \A schedule \in Shown(c) :
            schedule.day_type \in DayTypes =>
               \A f \in RequiredRoles(schedule.day_type) :
                  /\ f \in CardRoles(schedule)
                  /\ VacancySlots(schedule, f) =
                        Max(0, RequiredCountOf(f, schedule.day_type)
                                  - AssignedTo(schedule, f)))
    /\ [][(/\ SaveServed
           /\ ValidateSchedule(saveInFlight.body) = "ok"
           /\ saveInFlight.method = "PUT" => db[saveInFlight.id] # Absent
           /\ UnderStaffed(saveInFlight.body.day_type, saveInFlight.body.assignments))
          => LET id == IF saveInFlight.method = "PUT" THEN saveInFlight.id ELSE nextId
             IN /\ lastAlert'[Admin].detail = ""
                /\ db'[id] # Absent
                /\ \A f \in RequiredRoles(saveInFlight.body.day_type) :
                      FindAssignment(db'[id].assignments, f).user_ids
                         = SuppliedUserIds(saveInFlight.body.assignments, f)]_vars

\* The Dashboard shows a Wednesday record without a Cleaning assignment, and
\* an under-staffed update of it has been saved.
C15_Witness ==
    /\ lastAlert[Admin] = [text |-> "Escala atualizada com sucesso!", detail |-> ""]
    /\ \E schedule \in Shown(Admin) :
          /\ schedule.day_type = "wednesday"
          /\ FindAssignment(schedule.assignments, "limpeza") = Absent
          /\ VacancySlots(schedule, "limpeza") = 3
    /\ UnderStaffed(db[1].day_type, db[1].assignments)

\* C16: for a day type outside the three recognised ones, the role lookups do
\* not answer with an empty role list, and for a role outside the five known
\* ones the required-count lookups do not answer with a count.
C16_UnknownTypesAreErrors ==
    /\ \A c \in Viewers : \A schedule \in Shown(c) :
          schedule.day_type \notin DayTypes =>
             /\ getAllFunctions(schedule.day_type) # <<>>
             /\ initializeScheduleAssignments(schedule.day_type) # <<>>
    /\ showScheduleForm =>
          \A i \in 1..Len(scheduleForm.assignments) :
             scheduleForm.assignments[i].function_type \notin RoleTypes =>
                /\ AdminPanel_getRequiredCount(scheduleForm.assignments[i].function_type,
                                               scheduleForm.day_type) \notin Nat
                /\ getRequiredCount(scheduleForm.assignments[i].function_type,
                                    scheduleForm.day_type) \notin Nat

\* The ordered role list of an assignment list.
RoleList(assignments) ==
    [i \in 1..Len(assignments) |-> assignments[i].function_type]

\* C17: for every day type the ordered roles a new form is initialised with
\* are the ordered roles a card displays, and the Dashboard's and the
\* AdminPanel's getRequiredCount agree on every (role, day type); so a new
\* form and a card of the same day type show the same roles and counts.
C17_OneRequirementTable ==
    /\ \A d \in DayTypes :
          /\ RoleList(initializeScheduleAssignments(d)) = getAllFunctions(d)
          /\ \A f \in RoleTypes :
                getRequiredCount(f, d) = AdminPanel_getRequiredCount(f, d)
    /\ (showScheduleForm /\ editingSchedule = Null) =>
          /\ RoleList(scheduleForm.assignments) = getAllFunctions(scheduleForm.day_type)
          /\ \A schedule \in Shown(Admin) :
                schedule.day_type = scheduleForm.day_type =>
                   CardRows(schedule) =
                      [i \in 1..Len(scheduleForm.assignments) |->
                         << scheduleForm.assignments[i].function_type,
                            AdminPanel_getRequiredCount(
                                scheduleForm.assignments[i].function_type,
                                scheduleForm.day_type) >>]

\* A new Friday form is open while the Dashboard holds a Friday schedule.
C17_Witness ==
    /\ showScheduleForm
    /\ editingSchedule = Null
    /\ scheduleForm.day_type = "friday"
    /\ \E schedule \in Shown(Admin) : schedule.day_type = "friday"

\* C18: while no listing is pending, the AdminPanel list holds every record
\* as the server holds it: what was chosen in the form of an edit that was
\* cancelled, or whose PUT failed, or that is not yet saved, is not in it.
C18_UncommittedEditLeavesList ==
    ~adminFetching => adminSchedules = db

SaveSucceeded ==
    lastAlert[Admin].text \in {"Escala criada com sucesso!", "Escala atualizada com sucesso!"}

\* C19: when the listing that follows a successful create or update completes,
\* and the Dashboard has no listing of its own pending, both lists the
\* administrator's session holds, the AdminPanel's and the Dashboard's, show
\* the records as written.
C19_ListsShowWrittenRecord ==
    [][(AdminFetchSchedules /\ SaveSucceeded /\ ~dashFetching[Admin])
         => /\ adminSchedules' = db'
            /\ dashSchedules'[Admin] = db']_vars

\* C20: every request in flight with status accepted carries the empty
\* reason; no stored response other than a declined one has a reason; and for
\* every request the server would accept, an Accepted answer with any reason
\* text is recorded as Accepted with no reason.
C20_ReasonOnlyWithDeclined ==
    /\ \A i \in 1..Len(respInFlight) :
          respInFlight[i].status = "accepted" => respInFlight[i].reason = ""
    /\ \A id \in ScheduleIds :
          db[id] # Absent =>
             \A k \in 1..Len(db[id].assignments) :
                \A u \in DOMAIN db[id].assignments[k].responses :
                   db[id].assignments[k].responses[u].reason # ""
                      => db[id].assignments[k].responses[u].status = "declined"
    /\ \A i \in 1..Len(respInFlight) :
          LET req == respInFlight[i]
          IN recordResponseResult(db[req.schedule_id], req.function_type, req.client) = "ok"
               => \A reason \in PromptResults \ {"null"} :
                     FindAssignment(
                        recordResponseApply(db[req.schedule_id], req.function_type,
                                            req.client, "accepted", reason).assignments,
                        req.function_type).responses[req.client] = Accepted

\* u1's 'Aceitar' has been recorded, and another volunteer action of u1 put a
\* declined request with a reason in flight.
C20_Witness ==
    /\ lastAlert["u1"] = SuccessAlert
    /\ \E id \in ScheduleIds, f \in RoleTypes :
          /\ HasTerminal(db, id, f, "u1")
          /\ StoredAssignment(db, id, f).responses["u1"] = Accepted
    /\ \E i \in 1..Len(respInFlight) :
          respInFlight[i].status = "declined" /\ respInFlight[i].reason = "motivo"

\* C21: no submit of the form sends a request while the form's date is
\* empty, so no create or update request in flight has an empty date.
C21_EmptyDateSendsNothing ==
    /\ [](saveInFlight # Absent => saveInFlight.body.date # "")
    /\ [][scheduleForm.date = "" =>
             (saveInFlight' = saveInFlight \/ saveInFlight' = Absent)]_vars

\* The form reopened by '+ Nova Escala' after a successful save: its date is
\* empty again and the submit button is not disabled.
C21_Witness ==
    /\ SaveSucceeded
    /\ showScheduleForm
    /\ scheduleForm.date = ""
    /\ ~loading
    /\ stepsLeft > 0

DeleteNotFoundAlert == [text |-> "Erro ao excluir escala: ", detail |-> "NotFoundError"]

\* C22: 'Excluir' answered with no at the confirmation sends nothing; a DELETE
\* served for a stored record removes it, reports success and starts the
\* listing, which then leaves the AdminPanel list without the record; a DELETE
\* served for an absent record changes neither the server nor the list, starts
\* no listing and reports NotFoundError.
C22_DeleteRemovesOrReports ==
    [][/\ \A id \in ScheduleIds :
            handleDeleteSchedule(id, FALSE) => deleteInFlight' = Null
       /\ (DeleteServed /\ db[deleteInFlight] # Absent)
            => /\ db'[deleteInFlight] = Absent
               /\ lastAlert'[Admin] = [text |-> "Escala excluída com sucesso!", detail |-> ""]
               /\ adminFetching'
       /\ (DeleteServed /\ db[deleteInFlight] = Absent)
            => /\ db' = db
               /\ adminSchedules' = adminSchedules
               /\ adminFetching' = adminFetching
               /\ lastAlert'[Admin] = DeleteNotFoundAlert
       /\ AdminFetchSchedules => adminSchedules' = db]_vars

\* The second DELETE of a record already deleted has been answered: the error
\* is shown, and the list still holds the record as before.
C22_Witness ==
    /\ lastAlert[Admin] = DeleteNotFoundAlert
    /\ db[1] = Absent
    /\ adminSchedules[1] # Absent

\* A served response request succeeds.
ResponseSucceeds(req) ==
    recordResponseResult(db[req.schedule_id], req.function_type, req.client) = "ok"

C24_UserImpliesToken ==
    user # Absent => (token # NoToken /\ authHeader # NoToken)

\* C25: a failed POST /login leaves user, token, the stored token
\* and the Authorization header unchanged, and LoginScreen shows the message
\* of the failure with loading back to false.
C25_FailedLoginShowsMessage ==
    [][\A detail \in LoginDetails :
          LoginFails(detail) =>
              /\ UNCHANGED << user, token, storedToken, authHeader >>
              /\ LoginScreenRendered'
              /\ loginError' = LoginMessage(detail)
              /\ ~loginLoading']_vars

\* C26: AdminPanel is rendered only when activeTab is 'admin' and the current
\* user's role is 'admin', also when the user stops being an administrator
\* while activeTab is 'admin'.
C26_AdminPanelOnlyForAdmin ==
    AdminPanelRendered =>
        /\ user # Absent
        /\ user.role = "admin"
        /\ activeTab = "admin"

\* The administrator opened the admin tab and a later GET /me returned the
\* role 'user': the tab is still 'admin' and the panel is not rendered.
C26_Witness ==
    /\ user # Absent
    /\ user.role = "user"
    /\ activeTab = "admin"
    /\ ~AdminPanelRendered

\* C27: clicking 'Recusar' and cancelling the reason prompt sends no response
\* and leaves the stored responses as they are; confirming the prompt sends
\* status declined with the entered text (or the empty string) as reason.
C27_CancelledPromptSendsNothing ==
    [][\A c \in Viewers, id \in ScheduleIds, functionType \in RoleTypes :
          /\ Recusar(c, id, functionType, "null") =>
                /\ respInFlight' = respInFlight
                /\ db' = db
          /\ \A text \in PromptResults \ {"null"} :
                Recusar(c, id, functionType, text) =>
                    respInFlight' = Append(respInFlight,
                        ResponseRequest(c, dashSchedules[c][id].id, functionType,
                                        "declined", text))]_vars

\* C28: a save attempt either fully resets the form or leaves it untouched.
\* When the POST/PUT succeeds the form is closed, scheduleForm is
\* {date: '', day_type: 'wednesday', assignments: []} and editingSchedule is
\* null; when it fails the form, scheduleForm and editingSchedule are as they
\* were; in both cases loading is false afterwards, and loading never stays
\* true for ever.
C28_SaveResetsOrLeavesForm ==
    /\ [][/\ (SaveServed /\ SaveResult(saveInFlight) = "ok") =>
                /\ ~showScheduleForm'
                /\ scheduleForm' = [date |-> "", day_type |-> "wednesday",
                                    assignments |-> << >>]
                /\ editingSchedule' = Null
                /\ ~loading'
          /\ (SaveFails \/ (SaveServed /\ SaveResult(saveInFlight) # "ok")) =>
                /\ showScheduleForm' = showScheduleForm
                /\ scheduleForm' = scheduleForm
                /\ editingSchedule' = editingSchedule
                /\ ~loading']_vars
    /\ loading ~> ~loading

\* A save has failed with the form open on an edited record and left it so,
\* after an earlier save succeeded and reset the form.
C28_Witness ==
    /\ lastAlert[Admin].text = "Erro ao salvar escala: "
    /\ showScheduleForm
    /\ editingSchedule # Null
    /\ scheduleForm.date # ""
    /\ ~loading
    /\ saveInFlight = Absent

C30_NamesResolveForEveryViewer ==
    \A c \in Viewers, id \in ScheduleIds, functionType \in RoleTypes :
        (/\ dashSchedules[c][id] # Absent
         /\ ~dashFetching[c]
         /\ ~usersFetching[c]
         /\ dashUsers[c] # {} \/ c # Admin)
            => \A userId \in CardRowUserIds(dashSchedules[c][id], functionType) :
                  userId \in DOMAIN UserNames => NameShown(c, userId) = UserNames[userId]

=============================================================================
